---- MODULE Spec2Model ----
(***************************************************************************)
(* The orchestration core of src/agents/orchestrator/main.py: the agent    *)
(* registry and its discovery passes, the keyword router, call_agent and   *)
(* the request handlers execute_task and execute_task_async, the queue     *)
(* processor and the response reader.                                      *)
(*                                                                         *)
(* Text on which the code does substring tests (task text, agent names,    *)
(* descriptions, skill names) is a sequence of one-character strings, so   *)
(* that str.lower() and the `in` operator are computed, not assumed.       *)
(* URLs are sequences of segments: the only operations on them are strip,  *)
(* replace of the well-known suffix and appending "/task".  User ids are   *)
(* compared for equality only and are plain strings.                       *)
(* An optional value (a dict key that may be absent, or None) is a         *)
(* sequence of length 0 or 1.                                              *)
(***************************************************************************)
EXTENDS Integers, Sequences, FiniteSets, TLC

VARIABLES
    discovered_agents,   \* the registry: an insertion-ordered dict, as a sequence of [key, card]
    disc,                \* per discovery pass: its position in discover_all_agents and its log
    sel,                 \* the last call of select_best_agent: its inputs and its result
    service_bus_client,  \* "none", "open", or "closed" by the shutdown
    tasks,               \* the agent-tasks queue: message id -> message and its broker state
    responses,           \* the agent-responses queue: sequence of messages with broker state
    proc,                \* the queue processor task: its position in process_queue_messages
    reader,              \* the get_responses handler: its position and collected records
    lifespan,            \* "startup" until the startup discovery pass is over, then "serving",
                         \* then "shutdown"
    api                  \* the request handler in progress (execute_task, execute_task_async or a
                         \* direct call of call_agent) and its answer

vars ==
    <<discovered_agents, disc, sel, service_bus_client, tasks, responses, proc, reader,
      lifespan, api>>

----------------------------------------------------------------------------
(* Optional values and Python truthiness *)

None == <<>>

Some(x) == <<x>>

Get(opt, default) == IF opt = None THEN default ELSE opt[1]

EmptyStr == <<>>

\* bool(x) for x an optional string: None and "" are falsy
Truthy(opt) == opt # None /\ opt[1] # EmptyStr

----------------------------------------------------------------------------
(* Strings *)

S_burger == <<"b", "u", "r", "g", "e", "r">>
S_cheeseburger == <<"c", "h", "e", "e", "s", "e", "b", "u", "r", "g", "e", "r">>
S_hamburger == <<"h", "a", "m", "b", "u", "r", "g", "e", "r">>
S_pizza == <<"p", "i", "z", "z", "a">>
S_pizzas == <<"p", "i", "z", "z", "a", "s">>
S_margherita == <<"m", "a", "r", "g", "h", "e", "r", "i", "t", "a">>
S_pepperoni == <<"p", "e", "p", "p", "e", "r", "o", "n", "i">>
S_illustration == <<"i", "l", "l", "u", "s", "t", "r", "a", "t", "i", "o", "n">>
S_illustrate == <<"i", "l", "l", "u", "s", "t", "r", "a", "t", "e">>
S_draw == <<"d", "r", "a", "w">>
S_image == <<"i", "m", "a", "g", "e">>
S_picture == <<"p", "i", "c", "t", "u", "r", "e">>
S_visual == <<"v", "i", "s", "u", "a", "l">>
S_graphic == <<"g", "r", "a", "p", "h", "i", "c">>
S_currency == <<"c", "u", "r", "r", "e", "n", "c", "y">>
S_exchange == <<"e", "x", "c", "h", "a", "n", "g", "e">>
S_convert == <<"c", "o", "n", "v", "e", "r", "t">>
S_restaurant == <<"r", "e", "s", "t", "a", "u", "r", "a", "n", "t">>
S_attraction == <<"a", "t", "t", "r", "a", "c", "t", "i", "o", "n">>
S_itinerary == <<"i", "t", "i", "n", "e", "r", "a", "r", "y">>
S_trip == <<"t", "r", "i", "p">>
S_plan == <<"p", "l", "a", "n">>
S_illustrat == <<"i", "l", "l", "u", "s", "t", "r", "a", "t">>
S_travel == <<"t", "r", "a", "v", "e", "l">>
S_burger_agent == <<"b", "u", "r", "g", "e", "r", "-", "a", "g", "e", "n", "t">>
S_travel_agent == <<"t", "r", "a", "v", "e", "l", "-", "a", "g", "e", "n", "t">>
S_unknown == <<"u", "n", "k", "n", "o", "w", "n">>
S_ghost_agent == <<"g", "h", "o", "s", "t", "-", "a", "g", "e", "n", "t">>
S_handles_burger_orders == <<"h", "a", "n", "d", "l", "e", "s", " ", "b", "u", "r", "g", "e", "r", " ", "o", "r", "d", "e", "r", "s">>
S_trip_planning == <<"t", "r", "i", "p", " ", "p", "l", "a", "n", "n", "i", "n", "g">>
S_rates_for_travel == <<"r", "a", "t", "e", "s", " ", "f", "o", "r", " ", "t", "r", "a", "v", "e", "l">>
S_currency_exchange == <<"c", "u", "r", "r", "e", "n", "c", "y", "_", "e", "x", "c", "h", "a", "n", "g", "e">>
T_cheeseburgers == <<"I", " ", "w", "a", "n", "t", " ", "2", " ", "c", "h", "e", "e", "s", "e", "b", "u", "r", "g", "e", "r", "s">>
T_convert == <<"C", "o", "n", "v", "e", "r", "t", " ", "1", "0", "0", " ", "U", "S", "D", " ", "t", "o", " ", "E", "U", "R">>
T_exchange_burger == <<"e", "x", "c", "h", "a", "n", "g", "e", " ", "a", " ", "b", "u", "r", "g", "e", "r", " ", "c", "o", "u", "p", "o", "n">>
T_plan_trip == <<"P", "l", "a", "n", " ", "a", " ", "t", "r", "i", "p", " ", "t", "o", " ", "R", "o", "m", "e">>
T_time == <<"w", "h", "a", "t", " ", "t", "i", "m", "e", " ", "i", "s", " ", "i", "t">>

\* str.lower(), character by character
LowerChar(c) ==
    CASE c = "A" -> "a" [] c = "B" -> "b" [] c = "C" -> "c" [] c = "D" -> "d"
      [] c = "E" -> "e" [] c = "F" -> "f" [] c = "G" -> "g" [] c = "H" -> "h"
      [] c = "I" -> "i" [] c = "J" -> "j" [] c = "K" -> "k" [] c = "L" -> "l"
      [] c = "M" -> "m" [] c = "N" -> "n" [] c = "O" -> "o" [] c = "P" -> "p"
      [] c = "Q" -> "q" [] c = "R" -> "r" [] c = "S" -> "s" [] c = "T" -> "t"
      [] c = "U" -> "u" [] c = "V" -> "v" [] c = "W" -> "w" [] c = "X" -> "x"
      [] c = "Y" -> "y" [] c = "Z" -> "z" [] OTHER -> c

Lower(s) == [i \in 1..Len(s) |-> LowerChar(s[i])]

\* Python's `pat in s` on strings: pat occurs as a contiguous run of s
In(pat, s) ==
    \E i \in 0..(Len(s) - Len(pat)) : \A j \in 1..Len(pat) : s[i + j] = pat[j]

\* any(keyword in text for keyword in keywords)
AnyKeyword(keywords, text) == \E k \in 1..Len(keywords) : In(keywords[k], text)

BurgerKeywords == <<S_burger, S_cheeseburger, S_hamburger>>

PizzaKeywords == <<S_pizza, S_pizzas, S_margherita, S_pepperoni>>

IllustrationKeywords ==
    <<S_illustration, S_illustrate, S_draw, S_image, S_picture, S_visual, S_graphic>>

CurrencyKeywords == <<S_currency, S_exchange, S_convert>>

TravelKeywords == <<S_restaurant, S_attraction, S_itinerary, S_trip, S_plan>>

----------------------------------------------------------------------------
(* The registry: Python's insertion-ordered dict *)

Keys(d) == {d[i].key : i \in 1..Len(d)}

KeyList(d) == [i \in 1..Len(d) |-> d[i].key]

HasKey(d, k) == \E i \in 1..Len(d) : d[i].key = k

Lookup(d, k) == d[CHOOSE i \in 1..Len(d) : d[i].key = k].card

\* a dict whose assignment moves the key to the end
DictSet_moving(d, k, v) ==
    Append(SelectSeq(d, LAMBDA e : e.key # k), [key |-> k, card |-> v])

\* d[k] = v: an existing key keeps its position, a new key goes last
DictSet(d, k, v) ==
    IF HasKey(d, k)
    THEN [i \in 1..Len(d) |-> IF d[i].key = k THEN [key |-> k, card |-> v] ELSE d[i]]
    ELSE Append(d, [key |-> k, card |-> v])

----------------------------------------------------------------------------
(* select_best_agent *)

\* lines 237-253: the name/description-level rules of one agent
NameDescriptionMatch(task_lower, agent_name, agent_card) ==
    LET agent_description == Lower(Get(agent_card.description, EmptyStr))
        agent_name_lower == Lower(agent_name)
    IN  \/ /\ AnyKeyword(BurgerKeywords, task_lower)
           /\ In(S_burger, agent_name_lower) \/ In(S_burger, agent_description)
        \/ /\ AnyKeyword(PizzaKeywords, task_lower)
           /\ In(S_pizza, agent_name_lower) \/ In(S_pizza, agent_description)
        \/ /\ AnyKeyword(IllustrationKeywords, task_lower)
           /\ In(S_illustrat, agent_name_lower) \/ In(S_illustrat, agent_description)

\* lines 256-289: the rules of one skill of one agent
SkillMatch(task_lower, agent_name, skill) ==
    LET skill_name == Lower(Get(skill.name, EmptyStr))
        skill_desc == Lower(Get(skill.description, EmptyStr))
    IN  \/ /\ AnyKeyword(IllustrationKeywords, task_lower)
           /\ In(S_illustrat, skill_name) \/ In(S_illustrat, skill_desc)
        \/ /\ AnyKeyword(CurrencyKeywords, task_lower)
           /\ In(S_currency, skill_name) \/ In(S_currency, skill_desc)
        \/ /\ AnyKeyword(TravelKeywords, task_lower)
           /\ \/ In(S_travel, skill_name)
              \/ In(S_restaurant, skill_name)
              \/ In(S_attraction, skill_name)
        \/ /\ AnyKeyword(BurgerKeywords, task_lower)
           /\ \/ In(S_burger, skill_name)
              \/ In(S_burger, skill_desc)
              \/ In(S_burger, Lower(agent_name))
        \/ /\ AnyKeyword(PizzaKeywords, task_lower)
           /\ \/ In(S_pizza, skill_name)
              \/ In(S_pizza, skill_desc)
              \/ In(S_pizza, Lower(agent_name))

\* skills = agent_card.get("capabilities", {}).get("skills", [])
RoutingSkills(agent_card) ==
    IF agent_card.capabilities = None THEN <<>>
    ELSE Get(agent_card.capabilities[1].skills, <<>>)

\* one iteration of the loop of line 230: does it return agent_name?
AgentMatches(task_lower, agent_name, agent_card) ==
    \/ NameDescriptionMatch(task_lower, agent_name, agent_card)
    \/ LET skills == RoutingSkills(agent_card)
       IN  \E s \in 1..Len(skills) : SkillMatch(task_lower, agent_name, skills[s])

\* a scan that tries the name/description rules on every agent before any skill
ScanAgents_names_first(task_lower, agents, i) ==
    LET byName == {j \in i..Len(agents) :
                      NameDescriptionMatch(task_lower, agents[j].key, agents[j].card)}
        byRule == {j \in i..Len(agents) :
                      AgentMatches(task_lower, agents[j].key, agents[j].card)}
    IN  IF byName # {} THEN Some(agents[CHOOSE j \in byName : \A k \in byName : j <= k].key)
        ELSE IF byRule # {}
             THEN Some(agents[CHOOSE j \in byRule : \A k \in byRule : j <= k].key)
             ELSE None

\* the loop of line 230 from position i on: the first agent that matches, or None
RECURSIVE ScanAgents(_, _, _)
ScanAgents(task_lower, agents, i) ==
    IF i > Len(agents) THEN None
    ELSE IF AgentMatches(task_lower, agents[i].key, agents[i].card)
         THEN Some(agents[i].key)
         ELSE ScanAgents(task_lower, agents, i + 1)

\* the default taken from the wrong end of the registry
DefaultAgent_last(agents) ==
    IF Len(agents) > 0 THEN Some(KeyList(agents)[Len(agents)]) ELSE None

\* a router without a default
DefaultAgent_none(agents) == None

\* lines 291-298: the default
DefaultAgent(agents) ==
    IF Len(agents) > 0 THEN Some(KeyList(agents)[1]) ELSE None

\* lines 222-224: the preferred agent wins when it is truthy and registered
PreferredHit(preferred_agent, agents) ==
    Truthy(preferred_agent) /\ HasKey(agents, preferred_agent[1])

\* the keyword rules tried before the preferred agent
select_best_agent_rules_first(task, preferred_agent, agents) ==
    LET found == ScanAgents(Lower(task), agents, 1)
    IN  IF found # None THEN found
        ELSE IF PreferredHit(preferred_agent, agents) THEN Some(preferred_agent[1])
        ELSE DefaultAgent(agents)

\* select_best_agent(task, preferred_agent), reading the registry `agents`
select_best_agent(task, preferred_agent, agents) ==
    IF PreferredHit(preferred_agent, agents)
    THEN Some(preferred_agent[1])
    ELSE LET found == ScanAgents(Lower(task), agents, 1)
         IN  IF found # None THEN found ELSE DefaultAgent(agents)

----------------------------------------------------------------------------
(* Discovery: the configured endpoints and what a fetch can bring back *)

WellKnown == "/.well-known/agent.json"

Blank == " "

BurgerEndpoint == <<"http://burger-agent-service", WellKnown>>

TravelEndpoint == <<"http://travel-agent-service", WellKnown>>

\* os.getenv("AGENT_ENDPOINTS", ...).split(","): here with a padded entry and an
\* empty one, "<burger> ,,<travel>"
AGENT_ENDPOINTS == <<BurgerEndpoint \o <<Blank>>, <<>>, TravelEndpoint>>

\* str.strip() on a URL
RECURSIVE Strip(_)
Strip(s) ==
    IF s = <<>> THEN s
    ELSE IF Head(s) = Blank THEN Strip(Tail(s))
    ELSE IF s[Len(s)] = Blank THEN Strip(SubSeq(s, 1, Len(s) - 1))
    ELSE s

\* endpoint.replace("/.well-known/agent.json", "")
StripWellKnown(s) == SelectSeq(s, LAMBDA seg : seg # WellKnown)

\* A JSON body: a dict with the keys the code reads (each may be absent; `other`
\* says whether it has further keys, such as protocolVersion) or not a dict at all.
JsonDict(name, description, skills, capabilities, other) ==
    [isdict |-> TRUE, name |-> name, description |-> description,
     skills |-> skills, capabilities |-> capabilities, other |-> other]

EmptyDict == JsonDict(None, None, None, None, FALSE)

JsonList == [EmptyDict EXCEPT !.isdict = FALSE]

CurrencySkill == [name |-> Some(S_currency_exchange), description |-> Some(S_rates_for_travel)]

BurgerCard == JsonDict(Some(S_burger_agent), Some(S_handles_burger_orders), None, None, TRUE)

\* the A2A shape: skills under capabilities
TravelCard ==
    JsonDict(Some(S_travel_agent), Some(S_trip_planning), None,
             Some([skills |-> Some(<<CurrencySkill>>)]), TRUE)

\* the ADK shape: skills at the top level
TravelCardADK ==
    JsonDict(Some(S_travel_agent), Some(S_trip_planning), Some(<<CurrencySkill>>), None, TRUE)

\* a card without a name
NamelessCard == JsonDict(None, None, None, None, TRUE)

\* what the service behind an endpoint may answer with a success status
Bodies(endpoint) ==
    IF endpoint = BurgerEndpoint THEN {BurgerCard, EmptyDict}
    ELSE {TravelCard, TravelCardADK, NamelessCard, JsonList}

\* the outcome of client.get(endpoint_url): a network error or an error status
\* ("error"), a body that is not JSON ("error" as well: response.json() raises),
\* or a JSON body
FetchOutcomes(endpoint) ==
    {[kind |-> "error", body |-> EmptyDict]}
        \cup {[kind |-> "json", body |-> b] : b \in Bodies(endpoint)}

\* bool(agent_card) for a dict
DictTruthy(body) ==
    \/ body.name # None
    \/ body.description # None
    \/ body.skills # None
    \/ body.capabilities # None
    \/ body.other

\* discover_agent without its try/except: the exception reaches the caller
discover_agent_uncaught(outcome) ==
    IF outcome.kind = "error" \/ ~outcome.body.isdict
    THEN [raised |-> TRUE, card |-> None]
    ELSE [raised |-> FALSE, card |-> Some(outcome.body)]

\* discover_agent: every exception is caught and gives None.  A body that is not a
\* dict raises AttributeError at agent_card.get (line 173), inside the try.
discover_agent(outcome) ==
    IF outcome.kind = "error" THEN [raised |-> FALSE, card |-> None]
    ELSE IF ~outcome.body.isdict THEN [raised |-> FALSE, card |-> None]
    ELSE [raised |-> FALSE, card |-> Some(outcome.body)]

\* a card stored as it was fetched, without the two URLs
StoredCard_bare(body, endpoint) ==
    [name |-> body.name, description |-> body.description, skills |-> body.skills,
     capabilities |-> body.capabilities,
     discovery_url |-> <<>>, base_url |-> <<>>]

\* lines 200-204: the card as stored, under its name
StoredCard(body, endpoint) ==
    [name |-> body.name, description |-> body.description, skills |-> body.skills,
     capabilities |-> body.capabilities,
     discovery_url |-> endpoint, base_url |-> StripWellKnown(endpoint)]

AgentName(body) == Get(body.name, S_unknown)

\* a pass that drops the agent of an endpoint whose fetch brought no card
StoreAgent_dropping(agents, endpoint, agent_card) ==
    IF agent_card # None /\ DictTruthy(agent_card[1])
    THEN DictSet(agents, AgentName(agent_card[1]), StoredCard(agent_card[1], endpoint))
    ELSE SelectSeq(agents, LAMBDA e : e.card.discovery_url # endpoint)

\* lines 199-204 for the stripped endpoint and the result of discover_agent
StoreAgent(agents, endpoint, agent_card) ==
    IF agent_card # None /\ DictTruthy(agent_card[1])
    THEN DictSet(agents, AgentName(agent_card[1]), StoredCard(agent_card[1], endpoint))
    ELSE agents

\* lines 193-196: the next endpoint at or after position i that is not blank,
\* or Len + 1 when the loop is over
RECURSIVE NextEndpoint(_)
NextEndpoint(i) ==
    IF i > Len(AGENT_ENDPOINTS) THEN i
    ELSE IF Strip(AGENT_ENDPOINTS[i]) = <<>> THEN NextEndpoint(i + 1)
    ELSE i

----------------------------------------------------------------------------
(* Discovery passes.  discover_all_agents suspends only at the fetch of      *)
(* discover_agent; what follows a fetch runs without interruption up to the  *)
(* next fetch.  Pass 1 is the one lifespan awaits at startup; the others are *)
(* /discover requests, served once startup is over.                          *)

MaxPasses == 2

Passes == 1..MaxPasses

EndpointIndexes == 1..Len(AGENT_ENDPOINTS)

NoLog == [status |-> "none", name |-> None]

\* a pass that is not running: pc, the endpoint being fetched, the record of the
\* pass (per endpoint what its fetch gave), and whether another pass has written
\* to the registry since this one issued its first fetch
IdlePass ==
    [pc |-> "idle", idx |-> 0, log |-> [i \in EndpointIndexes |-> NoLog], crossed |-> FALSE]

\* what one fetch of the pass did: "fail" (no response or an error status),
\* "unusable" (a response that yields no card) or "ok" with the name stored
LogOf(outcome, agent_card) ==
    IF outcome.kind = "error" THEN [status |-> "fail", name |-> None]
    ELSE IF agent_card # None /\ DictTruthy(agent_card[1])
         THEN [status |-> "ok", name |-> Some(AgentName(agent_card[1]))]
         ELSE [status |-> "unusable", name |-> None]

\* discover_all_agents up to its first fetch (lines 189-198)
StartDiscovery(p) ==
    /\ disc[p].pc \in {"idle", "done"}
    /\ IF p = 1 THEN TRUE ELSE lifespan = "serving"
    /\ LET first == NextEndpoint(1)
       IN /\ disc' = [disc EXCEPT ![p] =
                [IdlePass EXCEPT !.pc = IF first > Len(AGENT_ENDPOINTS) THEN "done" ELSE "fetch",
                                 !.idx = first]]
          /\ lifespan' = IF p = 1 /\ first > Len(AGENT_ENDPOINTS)
                         THEN "serving" ELSE lifespan
    /\ UNCHANGED <<discovered_agents, sel, service_bus_client, tasks, responses, proc, reader, api>>

\* the fetch of pass p returns; lines 199-204, then the loop up to the next fetch
\* or to the end of discover_all_agents
FetchReturns(p) ==
    /\ disc[p].pc = "fetch"
    /\ \E outcome \in FetchOutcomes(Strip(AGENT_ENDPOINTS[disc[p].idx])) :
        LET endpoint == Strip(AGENT_ENDPOINTS[disc[p].idx])
            found == discover_agent(outcome)
            next == NextEndpoint(disc[p].idx + 1)
            entry == LogOf(outcome, found.card)
        IN  IF found.raised
            THEN /\ disc' = [disc EXCEPT ![p].pc = "raised"]
                 /\ UNCHANGED <<discovered_agents, lifespan, api>>
            ELSE /\ discovered_agents' = StoreAgent(discovered_agents, endpoint, found.card)
                 /\ disc' = [q \in Passes |->
                        IF q = p
                        THEN [disc[p] EXCEPT
                                !.pc = IF next > Len(AGENT_ENDPOINTS) THEN "done" ELSE "fetch",
                                !.idx = next,
                                !.log[disc[p].idx] = entry,
                                !.crossed = IF next > Len(AGENT_ENDPOINTS) THEN FALSE ELSE @]
                        ELSE IF entry.status = "ok" /\ disc[q].pc = "fetch"
                             THEN [disc[q] EXCEPT !.crossed = TRUE]
                             ELSE disc[q]]
                 /\ lifespan' = IF p = 1 /\ next > Len(AGENT_ENDPOINTS)
                                THEN "serving" ELSE lifespan
    /\ UNCHANGED <<sel, service_bus_client, tasks, responses, proc, reader, api>>

----------------------------------------------------------------------------
(* The parts of the state a specification leaves alone *)

NoSelection == [called |-> FALSE, task |-> EmptyStr, preferred |-> None, result |-> None]

NoTasks == <<>>

NoResponses == <<>>

\* call_agent not entered.  Of an entry into call_agent: the name it was called
\* with and whether that name was a key of the registry at that moment
NoCall == [agent_name |-> None, known |-> FALSE]

NoProc ==
    [pc |-> "off", batch |-> <<>>, i |-> 0, selected |-> None, result |-> None,
     at_call |-> NoCall, error |-> "none"]

NoReader ==
    [pc |-> "idle", user_id |-> "all", max_messages |-> 0, responses |-> <<>>, cur |-> 0,
     inspected |-> {}, at_start |-> 0, status |-> 0, cause |-> "none"]

\* no request in progress.  Of a request: the handler, its TaskRequest, the agent
\* it selected, its entry into call_agent (as in NoCall), the URLs it
\* POSTed to, and its answer (the HTTP status, or for a direct call of call_agent
\* the exception in `error`, with what the agent answered to the POST in `answer`)
NoApi ==
    [handler |-> "none", pc |-> "idle", request |-> None, selected |-> None,
     at_call |-> NoCall,
     posts |-> <<>>, answer |-> None, status |-> 0, error |-> "none", result |-> None,
     agent_used |-> None]

----------------------------------------------------------------------------
(* Specification Spec: the registry under discovery passes *)

Init ==
    /\ discovered_agents = <<>>
    /\ disc = [p \in Passes |-> IdlePass]
    /\ lifespan = "startup"
    /\ sel = NoSelection
    /\ service_bus_client = "none"
    /\ tasks = NoTasks
    /\ responses = NoResponses
    /\ proc = NoProc
    /\ reader = NoReader
    /\ api = NoApi

Next ==
    \E p \in Passes :
        \/ StartDiscovery(p)
        \/ FetchReturns(p)

Spec == Init /\ [][Next]_vars

----------------------------------------------------------------------------
(* Specification SpecRouter: select_best_agent applied to every registry    *)
(* that discovery can build, every task and every preferred-agent hint      *)

MaxStores == 3

\* every (endpoint, body) a fetch can bring to line 199
AllStores ==
    UNION {{<<Strip(AGENT_ENDPOINTS[i]), b>> : b \in Bodies(Strip(AGENT_ENDPOINTS[i]))} :
              i \in {j \in EndpointIndexes : Strip(AGENT_ENDPOINTS[j]) # <<>>}}

\* the registries that at most n successful fetches build, in any order: a pass
\* stores what its fetches bring and skips the endpoints that fail
RECURSIVE RegistriesAfter(_)
RegistriesAfter(n) ==
    IF n = 0 THEN {<<>>}
    ELSE LET prev == RegistriesAfter(n - 1)
         IN  prev \cup
             {StoreAgent(r, s[1], discover_agent([kind |-> "json", body |-> s[2]]).card) :
                 r \in prev, s \in AllStores}

ReachableRegistries == RegistriesAfter(MaxStores)

Tasks == {T_cheeseburgers, T_convert, T_exchange_burger, T_plan_trip, T_time}

PreferredHints ==
    {None, Some(EmptyStr), Some(S_travel_agent), Some(S_burger_agent), Some(S_ghost_agent)}

InitRouter ==
    /\ discovered_agents \in ReachableRegistries
    /\ disc = [p \in Passes |-> IdlePass]
    /\ lifespan = "serving"
    /\ sel = NoSelection
    /\ service_bus_client = "none"
    /\ tasks = NoTasks
    /\ responses = NoResponses
    /\ proc = NoProc
    /\ reader = NoReader
    /\ api = NoApi

\* a caller (execute_task, process_queue_messages) runs select_best_agent
Select ==
    /\ \E task \in Tasks, preferred_agent \in PreferredHints :
        sel' = [called |-> TRUE, task |-> task, preferred |-> preferred_agent,
                result |-> select_best_agent(task, preferred_agent, discovered_agents)]
    /\ UNCHANGED <<discovered_agents, disc, service_bus_client, tasks, responses, proc,
                   reader, lifespan, api>>

NextRouter == Select

SpecRouter == InitRouter /\ [][NextRouter]_vars

\* discovery builds only registries that SpecRouter starts from
RegistryIsReachable == discovered_agents \in ReachableRegistries

----------------------------------------------------------------------------
(* call_agent.  It runs without suspending from its entry to the POST of line 337; *)
(* the caller is suspended in that POST until the agent answers or the client      *)
(* gives up.                                                                       *)

\* call_agent is entered with agent_name
Entered(agent_name, agents) == [agent_name |-> Some(agent_name), known |-> HasKey(agents, agent_name)]

\* call_agent without the test of line 313: an unknown name is POSTed to "/task"
call_agent_request_unchecked(agent_name, agents) ==
    IF ~HasKey(agents, agent_name) THEN [raised |-> "none", task_url |-> <<"/task">>]
    ELSE [raised |-> "none", task_url |-> Append(Lookup(agents, agent_name).base_url, "/task")]

\* lines 313-331: the checks of call_agent and the URL it POSTs to.  `raised` is
\* "not_found" for ValueError("Agent '...' not found"), "no_base_url" for
\* ValueError("No base URL stored for agent '...'"), "none" when the POST is made
call_agent_request(agent_name, agents) ==
    IF ~HasKey(agents, agent_name) THEN [raised |-> "not_found", task_url |-> <<>>]
    ELSE LET agent_base_url == Lookup(agents, agent_name).base_url
         IN  IF agent_base_url = <<>> THEN [raised |-> "no_base_url", task_url |-> <<>>]
             ELSE [raised |-> "none", task_url |-> Append(agent_base_url, "/task")]

\* the body of an agent's answer: a JSON object (with or without the key "result"),
\* JSON of another shape (a list), or no JSON; `repr` is its str()
ObjectWithResult == [shape |-> "object", result |-> Some("result"), repr |-> "{'result': 'result'}"]

ObjectWithoutResult == [shape |-> "object", result |-> None, repr |-> "{'output': 'result'}"]

ListBody == [shape |-> "list", result |-> None, repr |-> "['result']"]

NotJson == [shape |-> "text", result |-> None, repr |-> "result"]

\* what the POST of line 337 can give: no answer or an error status ("error"), or
\* a success status with a body
PostOutcomes ==
    {[kind |-> "error", body |-> NotJson]}
        \cup {[kind |-> "success", body |-> b] :
                b \in {ObjectWithResult, ObjectWithoutResult, ListBody, NotJson}}

\* lines 341-348 once the POST is over: the result returned, or `raised` for the
\* HTTPException(500) of line 348.  raise_for_status raises on an error status,
\* response.json() on a body that is no JSON, result.get on JSON that is no object.
call_agent_result(outcome) ==
    IF outcome.kind = "error" THEN [raised |-> TRUE, result |-> None]
    ELSE IF outcome.body.shape = "text" THEN [raised |-> TRUE, result |-> None]
    ELSE IF outcome.body.shape # "object" THEN [raised |-> TRUE, result |-> None]
    ELSE [raised |-> FALSE,
          result |-> Some(Get(outcome.body.result, outcome.body.repr))]

----------------------------------------------------------------------------
(* The callers of call_agent that answer a request: execute_task, and a direct  *)
(* call of call_agent with a name of the caller's choosing.  `api` is the one   *)
(* in progress, suspended in the POST ("post") or over ("done").                *)

\* the requests POSTed to /task (TaskRequest, lines 130-134)
SyncRequests ==
    [task : {T_cheeseburgers, T_convert},
     user_id : {"alice"},
     preferred_agent : {None, Some(S_ghost_agent)}]

\* the names call_agent is called with directly
CalledNames == {S_burger_agent, S_travel_agent, S_unknown, S_ghost_agent}

\* execute_task raises HTTPException(status) before or instead of a result
Refused(request, selected, at_call, status, error) ==
    [NoApi EXCEPT !.handler = "execute_task", !.pc = "done", !.request = Some(request),
                  !.selected = selected, !.at_call = at_call, !.status = status, !.error = error]

\* execute_task without the test of line 476
NoAgents_never(agents) == FALSE

\* `not discovered_agents`, line 476
NoAgents(agents) == agents = <<>>

\* execute_task up to its first await (lines 474-493): 503 on an empty registry,
\* 404 when nothing is selected, 500 when a check of call_agent raises (the
\* handler of line 503), otherwise the POST of call_agent
ExecuteTask ==
    /\ lifespan = "serving"
    /\ api.pc \in {"idle", "done"}
    /\ \E request \in SyncRequests :
        IF NoAgents(discovered_agents)
        THEN api' = Refused(request, None, NoCall, 503, "no_agents")
        ELSE \E selected_agent \in
                   {select_best_agent(request.task, request.preferred_agent, discovered_agents)} :
                 IF ~Truthy(selected_agent)
                 THEN api' = Refused(request, selected_agent, NoCall, 404, "no_suitable_agent")
                 ELSE LET called == call_agent_request(selected_agent[1], discovered_agents)
                          at_call == Entered(selected_agent[1], discovered_agents)
                      IN  IF called.raised # "none"
                          THEN api' = Refused(request, selected_agent, at_call, 500, called.raised)
                          ELSE api' = [NoApi EXCEPT !.handler = "execute_task", !.pc = "post",
                                          !.request = Some(request), !.selected = selected_agent,
                                          !.at_call = at_call, !.posts = <<called.task_url>>]
    /\ UNCHANGED <<discovered_agents, disc, sel, service_bus_client, tasks, responses, proc,
                   reader, lifespan>>

\* call_agent(agent_name, task, user_id) called directly, up to its POST
CallAgent ==
    /\ lifespan = "serving"
    /\ api.pc \in {"idle", "done"}
    /\ \E agent_name \in CalledNames :
        LET called == call_agent_request(agent_name, discovered_agents)
            entered == [NoApi EXCEPT !.handler = "call_agent", !.selected = Some(agent_name),
                                     !.at_call = Entered(agent_name, discovered_agents)]
        IN  api' = IF called.raised # "none"
                   THEN [entered EXCEPT !.pc = "done", !.error = called.raised]
                   ELSE [entered EXCEPT !.pc = "post", !.posts = <<called.task_url>>]
    /\ UNCHANGED <<discovered_agents, disc, sel, service_bus_client, tasks, responses, proc,
                   reader, lifespan>>

\* the POST is over: call_agent returns or raises (lines 341-348) and execute_task
\* answers (lines 495-505)
\* a handler that drops from the registry the agent whose call failed
PostReturns_evicts ==
    /\ api.pc = "post"
    /\ \E outcome \in PostOutcomes :
        LET returned == call_agent_result(outcome)
        IN  /\ api' = [api EXCEPT !.pc = "done",
                                  !.status = IF returned.raised THEN 500 ELSE 200,
                                  !.result = returned.result,
                                  !.agent_used = api.selected]
            /\ discovered_agents' =
                    IF returned.raised
                    THEN SelectSeq(discovered_agents, LAMBDA e : Some(e.key) # api.selected)
                    ELSE discovered_agents
    /\ UNCHANGED <<disc, sel, service_bus_client, tasks, responses, proc, reader, lifespan>>

PostReturns ==
    /\ api.pc = "post"
    /\ \E outcome \in PostOutcomes :
        LET returned == call_agent_result(outcome)
            direct == api.handler = "call_agent"
            over == [api EXCEPT !.pc = "done", !.answer = IF direct THEN Some(outcome) ELSE None]
        IN  api' = IF returned.raised
                   THEN [over EXCEPT !.error = "call_failed",
                                     !.status = IF direct THEN 0 ELSE 500]
                   ELSE [over EXCEPT !.result = returned.result,
                                     !.status = IF direct THEN 0 ELSE 200,
                                     !.agent_used = IF direct THEN None ELSE api.selected]
    /\ UNCHANGED <<discovered_agents, disc, sel, service_bus_client, tasks, responses, proc,
                   reader, lifespan>>

----------------------------------------------------------------------------
(* The queue substrate.  A message of agent-tasks is "queued", "locked" (received *)
(* under a lock and not yet settled), "completed" or "dead" (dead-lettered).      *)
(* An operation that raises is taken to have had no effect on the broker.  The    *)
(* broker delivers a message at most MaxDeliveries times: when the lock of its    *)
(* last delivery expires the message is "exhausted" (the broker sets it aside).   *)

MaxTasks == 2

MaxDeliveries == 1

\* the requests POSTed to /task/async (TaskRequest, lines 130-134)
AsyncRequests ==
    [task : {T_cheeseburgers},
     user_id : {"alice"},
     preferred_agent : {None, Some(S_travel_agent)}]

\* a message that never carries the preferred agent
OrEmpty_dropping(opt) == Some(EmptyStr)

\* request.preferred_agent or ""
OrEmpty(opt) == IF Truthy(opt) THEN opt ELSE Some(EmptyStr)

\* a task message that leaves out the user id
TaskMessage_anonymous(request) ==
    [task |-> request.task,
     user_id |-> None,
     preferred_agent |-> OrEmpty(request.preferred_agent),
     state |-> "queued",
     deliveries |-> 0,
     reason |-> "none",
     error_description |-> "none"]

\* lines 529-535: the ServiceBusMessage execute_task_async builds
TaskMessage(request) ==
    [task |-> request.task,
     user_id |-> Some(request.user_id),
     preferred_agent |-> OrEmpty(request.preferred_agent),
     state |-> "queued",
     deliveries |-> 0,
     reason |-> "none",
     error_description |-> "none"]

\* execute_task_async answers `status`
Queued(request, status) ==
    [NoApi EXCEPT !.handler = "execute_task_async", !.pc = "done",
                  !.request = Some(request), !.status = status]

\* execute_task_async (lines 518-550): 503 without a client; otherwise the message
\* is sent and the answer is 200, or the sender raises and the answer is 500.
\* The queue is the only shared state the handler touches, at the send.
ExecuteTaskAsync ==
    /\ lifespan = "serving"
    /\ api.pc \in {"idle", "done"}
    /\ \E request \in AsyncRequests :
        IF service_bus_client = "none"
        THEN /\ api' = Queued(request, 503)
             /\ UNCHANGED tasks
        ELSE \/ /\ Len(tasks) < MaxTasks
                /\ tasks' = Append(tasks, TaskMessage(request))
                /\ api' = Queued(request, 200)
             \/ /\ api' = Queued(request, 500)
                /\ UNCHANGED tasks
    /\ UNCHANGED <<discovered_agents, disc, sel, service_bus_client, responses, proc,
                   reader, lifespan>>

\* the broker releases the lock of a message the processor holds but is not handling
LockExpires ==
    /\ \E m \in 1..Len(tasks) :
        /\ tasks[m].state = "locked"
        /\ proc.pc \in {"sleep", "backoff", "receive", "closing", "exited"}
        /\ tasks' = [tasks EXCEPT ![m].state =
                        IF tasks[m].deliveries < MaxDeliveries THEN "queued" ELSE "exhausted"]
    /\ UNCHANGED <<discovered_agents, disc, sel, service_bus_client, responses, proc,
                   reader, lifespan, api>>

----------------------------------------------------------------------------
(* process_queue_messages.  The task is suspended at one of its awaits: pc names *)
(* it.  What lies between two awaits runs without interruption.                  *)

MaxMessageCount == 10

QueuedIds == SelectSeq([m \in 1..Len(tasks) |-> m], LAMBDA m : tasks[m].state = "queued")

Min(a, b) == IF a < b THEN a ELSE b

\* bool(selected_agent), line 91
AgentSelected(selected) == Truthy(selected)

\* the processor between two batches, in asyncio.sleep(1) (line 117)
Sleeping == [NoProc EXCEPT !.pc = "sleep"]

\* lines 81-92 for message i of the batch, up to the first await: the POST of
\* call_agent when an agent is selected, complete_message otherwise; past the end
\* of the batch, the sleep of line 117.  When a check of call_agent raises (lines
\* 313-323) the handler of line 111 runs, up to dead_letter_message.
BeginMessage(batch, i) ==
    IF i > Len(batch) THEN Sleeping
    ELSE LET msg == tasks[batch[i]]
             selected == select_best_agent(msg.task, msg.preferred_agent, discovered_agents)
             here == [NoProc EXCEPT !.batch = batch, !.i = i, !.selected = selected]
         IN  IF ~AgentSelected(selected) THEN [here EXCEPT !.pc = "complete"]
             ELSE LET request == call_agent_request(selected[1], discovered_agents)
                      called == [here EXCEPT !.at_call = Entered(selected[1], discovered_agents)]
                  IN  IF request.raised = "none" THEN [called EXCEPT !.pc = "call"]
                      ELSE [called EXCEPT !.pc = "dead_letter", !.error = request.raised]

\* the message being handled
Current == proc.batch[proc.i]

\* a handler that completes the failed message instead of dead-lettering it
ToDeadLetter_completes(error) == [proc EXCEPT !.pc = "complete", !.error = error]

\* lines 111-114: the handler of the inner try, up to its await; `error` stands
\* for str(e)
ToDeadLetter(error) == [proc EXCEPT !.pc = "dead_letter", !.error = error]

\* lines 122-124: the handler of the outer try, up to its await
ToBackoff == [NoProc EXCEPT !.pc = "backoff"]

Exited == [NoProc EXCEPT !.pc = "exited"]

\* get_queue_receiver is entered (line 72): on failure the handler of line 126
\* ends the task
OpenReceiver ==
    /\ proc.pc = "open_receiver"
    /\ \E ok \in BOOLEAN :
        proc' = IF ok THEN [Sleeping EXCEPT !.pc = "receive"] ELSE Exited
    /\ UNCHANGED <<discovered_agents, disc, sel, service_bus_client, tasks, responses,
                   reader, lifespan, api>>

\* receive_messages returns (line 79) a batch of the queued messages, in order,
\* now locked, or raises
ReceiveReturns ==
    /\ proc.pc = "receive"
    /\ \/ /\ proc' = ToBackoff
           /\ UNCHANGED tasks
        \/ \E n \in (IF Len(QueuedIds) = 0 THEN {0}
                      ELSE 1..Min(MaxMessageCount, Len(QueuedIds))) :
            LET batch == SubSeq(QueuedIds, 1, n)
                locked == [m \in 1..Len(tasks) |->
                             IF \E k \in 1..n : batch[k] = m
                             THEN [tasks[m] EXCEPT !.state = "locked", !.deliveries = @ + 1]
                             ELSE tasks[m]]
            IN  /\ tasks' = locked
                /\ proc' = BeginMessage(batch, 1)
    /\ UNCHANGED <<discovered_agents, disc, sel, service_bus_client, responses, reader,
                   lifespan, api>>

\* call_agent returns a result or raises HTTPException (lines 335-348); on a
\* result the sender is opened and the response is built (lines 95-103)
CallReturns ==
    /\ proc.pc = "call"
    /\ \E outcome \in PostOutcomes :
        LET returned == call_agent_result(outcome)
        IN  proc' = IF returned.raised THEN ToDeadLetter("call_failed")
                    ELSE [proc EXCEPT !.pc = "send", !.result = returned.result]
    /\ UNCHANGED <<discovered_agents, disc, sel, service_bus_client, tasks, responses,
                   reader, lifespan, api>>

\* a response that names the agent the request preferred instead of the one called
ResponseMessage_preferred(task_id, user_id, selected_agent, result) ==
    [body |-> result,
     user_id |-> user_id,
     agent_used |-> IF Truthy(tasks[task_id].preferred_agent)
                    THEN tasks[task_id].preferred_agent[1] ELSE selected_agent,
     original_task |-> tasks[task_id].task,
     of_task |-> task_id,
     at_call |-> proc.at_call,
     state |-> "queued",
     deliveries |-> 0]

\* lines 96-103: the response message; `of_task` is the task it answers and
\* `at_call` the entry into call_agent that produced `result`
ResponseMessage(task_id, user_id, selected_agent, result) ==
    [body |-> result,
     user_id |-> user_id,
     agent_used |-> selected_agent,
     original_task |-> tasks[task_id].task,
     of_task |-> task_id,
     at_call |-> proc.at_call,
     state |-> "queued",
     deliveries |-> 0]

\* a processor that takes every task for anonymous
UserIdOf_anonymous(msg) == "anonymous"

\* msg.application_properties.get("user_id", "anonymous")
UserIdOf(msg) == IF msg.user_id = None THEN "anonymous" ELSE msg.user_id[1]

\* send_messages returns (line 104): the response is on agent-responses and
\* complete_message is awaited; or the sender raises
SendReturns ==
    /\ proc.pc = "send"
    /\ \/ /\ responses' = Append(responses,
                  ResponseMessage(Current, UserIdOf(tasks[Current]), proc.selected[1],
                                  proc.result[1]))
           /\ proc' = [proc EXCEPT !.pc = "complete"]
        \/ /\ proc' = ToDeadLetter("send_failed")
           /\ UNCHANGED responses
    /\ UNCHANGED <<discovered_agents, disc, sel, service_bus_client, tasks, reader, lifespan, api>>

\* complete_message returns (line 109) and the next message begins, or it raises
CompleteReturns ==
    /\ proc.pc = "complete"
    /\ \/ /\ tasks' = [tasks EXCEPT ![Current].state = "completed"]
           /\ proc' = BeginMessage(proc.batch, proc.i + 1)
        \/ /\ proc' = ToDeadLetter("complete_failed")
           /\ UNCHANGED tasks
    /\ UNCHANGED <<discovered_agents, disc, sel, service_bus_client, responses, reader,
                   lifespan, api>>

\* dead_letter_message returns (line 114) and the next message begins, or it
\* raises: raised inside the inner handler, the exception leaves the for loop and
\* reaches the handler of line 122
DeadLetterReturns ==
    /\ proc.pc = "dead_letter"
    /\ \/ /\ tasks' = [tasks EXCEPT ![Current].state = "dead",
                                      ![Current].reason = "ProcessingError",
                                      ![Current].error_description = proc.error]
           /\ proc' = BeginMessage(proc.batch, proc.i + 1)
        \/ /\ proc' = ToBackoff
           /\ UNCHANGED tasks
    /\ UNCHANGED <<discovered_agents, disc, sel, service_bus_client, responses, reader,
                   lifespan, api>>

\* asyncio.sleep returns (line 117 or line 124) and the loop receives again
SleepReturns ==
    /\ proc.pc \in {"sleep", "backoff"}
    /\ proc' = [Sleeping EXCEPT !.pc = "receive"]
    /\ UNCHANGED <<discovered_agents, disc, sel, service_bus_client, tasks, responses,
                   reader, lifespan, api>>

\* the processor past its loop, in the exit of `async with` (line 72), which
\* awaits the closing of the receiver
Closing == [NoProc EXCEPT !.pc = "closing"]

\* lifespan's shutdown cancels the task (lines 397-398) and awaits it (line 400):
\* CancelledError is raised at the await the task is suspended in.  It is no
\* Exception (Python 3.8 and later), so the handlers of lines 111, 122 and 126
\* let it pass: from within the while body the handler of line 119 breaks out of
\* the loop, from the backoff sleep (inside the handler of line 122) it leaves
\* the loop uncaught; both ways the operation awaited is abandoned and the
\* receiver is closed.  Cancelled while it opens the receiver the task ends at
\* once, and a task that has ended is left as it is.
Cancel ==
    /\ lifespan = "serving"
    /\ proc.pc # "off"
    /\ proc' = CASE proc.pc = "exited" -> proc
                [] proc.pc = "open_receiver" -> Exited
                [] OTHER -> Closing
    /\ lifespan' = "shutdown"
    /\ UNCHANGED <<discovered_agents, disc, sel, service_bus_client, tasks, responses, reader, api>>

\* the receiver is closed and the task ends
ReceiverCloses ==
    /\ proc.pc = "closing"
    /\ proc' = Exited
    /\ UNCHANGED <<discovered_agents, disc, sel, service_bus_client, tasks, responses,
                   reader, lifespan, api>>

\* a shutdown that closes the queue client without awaiting the task
CloseClient_at_once ==
    /\ lifespan = "shutdown"
    /\ service_bus_client = "open"
    /\ service_bus_client' = "closed"
    /\ UNCHANGED <<discovered_agents, disc, sel, tasks, responses, proc, reader, lifespan, api>>

\* lines 399-405: the await of the cancelled task has returned, or raised the
\* CancelledError the handler of line 401 drops; the queue client is closed
CloseClient ==
    /\ lifespan = "shutdown"
    /\ proc.pc = "exited"
    /\ service_bus_client = "open"
    /\ service_bus_client' = "closed"
    /\ UNCHANGED <<discovered_agents, disc, sel, tasks, responses, proc, reader, lifespan, api>>

----------------------------------------------------------------------------
(* Specification SpecQueue: the queue processor over a registry left by the   *)
(* startup discovery pass and the tasks it finds queued                       *)

\* the registries one pass over AGENT_ENDPOINTS from the empty registry can leave
RECURSIVE PassFrom(_, _)
PassFrom(agents, i) ==
    IF i > Len(AGENT_ENDPOINTS) THEN {agents}
    ELSE LET endpoint == Strip(AGENT_ENDPOINTS[i])
         IN  IF endpoint = <<>> THEN PassFrom(agents, i + 1)
             ELSE UNION {PassFrom(StoreAgent(agents, endpoint, discover_agent(o).card), i + 1) :
                            o \in FetchOutcomes(endpoint)}

StartupRegistries == PassFrom(<<>>, 1)

\* those where the startup pass stored nothing, or a card from every endpoint
QueueRegistries ==
    {r \in StartupRegistries :
        Len(r) \in {0, Cardinality({i \in EndpointIndexes : Strip(AGENT_ENDPOINTS[i]) # <<>>})}}

\* agent-tasks as earlier requests to /task/async left it: the queue outlives the
\* process, so the processor finds them when it starts
RECURSIVE QueuesUpTo(_)
QueuesUpTo(n) ==
    IF n = 0 THEN {<<>>}
    ELSE LET shorter == QueuesUpTo(n - 1)
         IN  shorter \cup {Append(q, TaskMessage(r)) : q \in shorter, r \in AsyncRequests}

InitQueue ==
    /\ discovered_agents \in QueueRegistries
    /\ disc = [p \in Passes |-> IdlePass]
    /\ lifespan = "serving"
    /\ sel = NoSelection
    /\ service_bus_client = "open"
    /\ tasks \in QueuesUpTo(MaxTasks)
    /\ responses = NoResponses
    /\ proc = [Sleeping EXCEPT !.pc = "open_receiver"]
    /\ reader = NoReader
    /\ api = NoApi

NextQueue ==
    \/ OpenReceiver
    \/ ReceiveReturns
    \/ CallReturns
    \/ SendReturns
    \/ CompleteReturns
    \/ DeadLetterReturns
    \/ SleepReturns
    \/ LockExpires
    \/ Cancel
    \/ ReceiverCloses

SpecQueue == InitQueue /\ [][NextQueue]_vars

----------------------------------------------------------------------------
(* Specification SpecBatch: the queue processor over the tasks it finds queued, *)
(* each delivered once (no lock expires while the processor runs)               *)

NextBatch ==
    \/ OpenReceiver
    \/ ReceiveReturns
    \/ CallReturns
    \/ SendReturns
    \/ CompleteReturns
    \/ DeadLetterReturns
    \/ SleepReturns
    \/ Cancel
    \/ ReceiverCloses

SpecBatch == InitQueue /\ [][NextBatch]_vars

----------------------------------------------------------------------------
(* Specification SpecShutdown: the queue processor and the shutdown of lifespan. *)
(* The closing of the receiver is a call that returns, so a processor that has   *)
(* left its loop goes on to end.                                                 *)

NextShutdown ==
    \/ NextBatch
    \/ CloseClient

SpecShutdown == InitQueue /\ [][NextShutdown]_vars /\ WF_vars(ReceiverCloses)

----------------------------------------------------------------------------
(* Specification SpecApi: the request handlers over a registry left by the *)
(* startup discovery pass, with or without a queue client                  *)

InitApi ==
    /\ discovered_agents \in StartupRegistries
    /\ disc = [p \in Passes |-> IdlePass]
    /\ lifespan = "serving"
    /\ sel = NoSelection
    /\ service_bus_client \in {"none", "open"}
    /\ tasks = NoTasks
    /\ responses = NoResponses
    /\ proc = NoProc
    /\ reader = NoReader
    /\ api = NoApi

NextApi ==
    \/ ExecuteTask
    \/ CallAgent
    \/ PostReturns
    \/ ExecuteTaskAsync

SpecApi == InitApi /\ [][NextApi]_vars

----------------------------------------------------------------------------
(* Specification SpecDispatch: the two dispatch paths (the queue processor and *)
(* execute_task) while a /discover request runs: pass 2 has issued its first   *)
(* fetch (the state StartDiscovery(2) leaves)                                  *)

InitDispatch ==
    /\ discovered_agents \in QueueRegistries
    /\ disc = [p \in Passes |->
                 IF p = 2 THEN [IdlePass EXCEPT !.pc = "fetch", !.idx = NextEndpoint(1)]
                 ELSE IdlePass]
    /\ lifespan = "serving"
    /\ sel = NoSelection
    /\ service_bus_client = "open"
    /\ tasks \in QueuesUpTo(1)
    /\ responses = NoResponses
    /\ proc = [Sleeping EXCEPT !.pc = "open_receiver"]
    /\ reader = NoReader
    /\ api = NoApi

NextDispatch ==
    \/ FetchReturns(2)
    \/ ExecuteTask
    \/ PostReturns
    \/ OpenReceiver
    \/ ReceiveReturns
    \/ CallReturns
    \/ SendReturns
    \/ CompleteReturns
    \/ DeadLetterReturns
    \/ SleepReturns

SpecDispatch == InitDispatch /\ [][NextDispatch]_vars

----------------------------------------------------------------------------
(* get_responses.  The handler is suspended in the receiver's iterator ("next"),  *)
(* in complete_message ("complete") or in abandon_message ("abandon"); "done" is  *)
(* the handler having answered, with `status` the HTTP status.  The record keeps  *)
(* the list `responses` of the handler, the messages the call received            *)
(* (`inspected`) and the number of messages the channel offered when it began     *)
(* (`at_start`).  The broker delivers a response at most MaxResponseDeliveries    *)
(* times.                                                                         *)

MaxResponseDeliveries == 2

MaxChannel == 2

MaxCount == 2

UserFilters == {"all", "alice", "bob"}

\* lines 595-596: props.get("user_id", "unknown")
MsgUserId(message) == message.user_id

\* user_id == "all" including every message
Matches_everything(user_id, msg_user_id) == TRUE

\* line 599
Matches(user_id, msg_user_id) == user_id = "all" \/ msg_user_id = user_id

\* lines 600-606: the record of a message
ResponseRecord(m) ==
    [user_id |-> MsgUserId(responses[m]),
     response |-> responses[m].body,
     agent_used |-> responses[m].agent_used,
     message_id |-> m]

\* the first message of agent-responses a receiver can be given
FirstQueued == CHOOSE m \in 1..Len(responses) :
    /\ responses[m].state = "queued"
    /\ \A k \in 1..(m - 1) : responses[k].state # "queued"

NoneQueued == \A m \in 1..Len(responses) : responses[m].state # "queued"

\* the handler answers: 200 with the collected list, or an error without it
Answer(status, cause) == [reader EXCEPT !.pc = "done", !.status = status, !.cause = cause, !.cur = 0]

\* GET /responses/{user_id}?max_messages=n up to the first await (lines 575-589)
GetResponses ==
    /\ reader.pc \in {"idle", "done"}
    /\ lifespan = "serving"
    /\ \E user_id \in UserFilters, max_messages \in 0..MaxCount :
        LET fresh == [NoReader EXCEPT !.user_id = user_id, !.max_messages = max_messages,
                        !.at_start = Cardinality({m \in 1..Len(responses) :
                                                    responses[m].state = "queued"})]
        IN  reader' = IF service_bus_client = "none"
                      THEN [fresh EXCEPT !.pc = "done", !.status = 503, !.cause = "no client"]
                      ELSE [fresh EXCEPT !.pc = "next"]
    /\ UNCHANGED <<discovered_agents, disc, sel, service_bus_client, tasks, responses, proc,
                   lifespan, api>>

\* the iterator of line 589 yields the next message, now locked, and lines 590-609
\* run up to complete_message; or it ends, no message being left, and the handler
\* returns the list (lines 619-623); or it raises and the handler of line 625
\* answers 500
NextReturns ==
    /\ reader.pc = "next"
    /\ \/ /\ ~NoneQueued
           /\ LET m == FirstQueued
              IN  /\ responses' = [responses EXCEPT ![m].state = "locked",
                                                    ![m].deliveries = @ + 1]
                  /\ reader' = [reader EXCEPT
                        !.pc = "complete",
                        !.cur = m,
                        !.inspected = @ \cup {m},
                        !.responses = IF Matches(reader.user_id, MsgUserId(responses[m]))
                                      THEN Append(@, ResponseRecord(m)) ELSE @]
        \/ /\ NoneQueued
           /\ reader' = Answer(200, "none")
           /\ UNCHANGED responses
        \/ /\ reader' = Answer(500, "read")
           /\ UNCHANGED responses
    /\ UNCHANGED <<discovered_agents, disc, sel, service_bus_client, tasks, proc, lifespan, api>>

\* complete_message returns (line 609): the message is gone, and the loop breaks
\* when the list is full (lines 611-612); or it raises and abandon_message is
\* awaited (lines 614-616)
ReaderCompleteReturns ==
    /\ reader.pc = "complete"
    /\ \/ /\ responses' = [responses EXCEPT ![reader.cur].state = "completed"]
           /\ reader' = IF Len(reader.responses) >= reader.max_messages
                         THEN Answer(200, "none")
                         ELSE [reader EXCEPT !.pc = "next", !.cur = 0]
        \/ /\ reader' = [reader EXCEPT !.pc = "abandon"]
           /\ UNCHANGED responses
    /\ UNCHANGED <<discovered_agents, disc, sel, service_bus_client, tasks, proc, lifespan, api>>

\* abandon_message returns (line 616) and the loop continues (line 617): the
\* message is back on the channel; or it raises, inside the handler of line 614,
\* and the handler of line 625 answers 500
AbandonReturns ==
    /\ reader.pc = "abandon"
    /\ \/ /\ responses' = [responses EXCEPT ![reader.cur].state =
                    IF responses[reader.cur].deliveries < MaxResponseDeliveries
                    THEN "queued" ELSE "exhausted"]
           /\ reader' = [reader EXCEPT !.pc = "next", !.cur = 0]
        \/ /\ reader' = Answer(500, "abandon")
           /\ UNCHANGED responses
    /\ UNCHANGED <<discovered_agents, disc, sel, service_bus_client, tasks, proc, lifespan, api>>

\* the list the caller receives
Returned == IF reader.status = 200 THEN reader.responses ELSE <<>>

----------------------------------------------------------------------------
(* Specification SpecReader: get_responses over the channels the processor can *)
(* have filled                                                                 *)

\* a response as the processor publishes it for a task of this user
PublishedFor(user_id) ==
    [body |-> "result", user_id |-> user_id, agent_used |-> S_travel_agent,
     original_task |-> T_time, of_task |-> 0,
     at_call |-> [agent_name |-> Some(S_travel_agent), known |-> TRUE],
     state |-> "queued", deliveries |-> 0]

RECURSIVE ChannelsUpTo(_)
ChannelsUpTo(n) ==
    IF n = 0 THEN {<<>>}
    ELSE LET shorter == ChannelsUpTo(n - 1)
         IN  shorter \cup {Append(c, PublishedFor(u)) : c \in shorter, u \in {"alice", "bob"}}

InitReader ==
    /\ discovered_agents = <<>>
    /\ disc = [p \in Passes |-> IdlePass]
    /\ lifespan = "serving"
    /\ sel = NoSelection
    /\ service_bus_client \in {"none", "open"}
    /\ tasks = NoTasks
    /\ responses \in ChannelsUpTo(MaxChannel)
    /\ proc = NoProc
    /\ reader = NoReader
    /\ api = NoApi

NextReader ==
    \/ GetResponses
    \/ NextReturns
    \/ ReaderCompleteReturns
    \/ AbandonReturns

SpecReader == InitReader /\ [][NextReader]_vars

----------------------------------------------------------------------------
(* Specification SpecPipeline: the asynchronous path from end to end.  A task *)
(* waits on agent-tasks, the processor dispatches it and publishes, and       *)
(* get_responses is called, at any moment, with any filter.                   *)

\* a message another producer left on agent-tasks, without the user_id property
ForeignTask ==
    [TaskMessage(CHOOSE r \in AsyncRequests : r.preferred_agent = None) EXCEPT !.user_id = None]

InitPipeline ==
    /\ discovered_agents \in {r \in QueueRegistries : Len(r) > 0}
    /\ disc = [p \in Passes |-> IdlePass]
    /\ lifespan = "serving"
    /\ sel = NoSelection
    /\ service_bus_client = "open"
    /\ tasks \in QueuesUpTo(1) \cup {<<ForeignTask>>}
    /\ responses = NoResponses
    /\ proc = [Sleeping EXCEPT !.pc = "open_receiver"]
    /\ reader = NoReader
    /\ api = NoApi

NextPipeline ==
    \/ OpenReceiver
    \/ ReceiveReturns
    \/ CallReturns
    \/ SendReturns
    \/ CompleteReturns
    \/ DeadLetterReturns
    \/ SleepReturns
    \/ GetResponses
    \/ NextReturns
    \/ ReaderCompleteReturns
    \/ AbandonReturns

SpecPipeline == InitPipeline /\ [][NextPipeline]_vars

----------------------------------------------------------------------------
(* Claims about select_best_agent, under SpecRouter *)

\* C1: when the preferred agent is supplied (a non-empty name: line 222 takes None
\* and "" as not supplied) and is a key of the registry, select_best_agent returns
\* it, whatever the task contains and whatever other agents are registered.
C1_PreferredAgentWins ==
    (sel.called /\ Truthy(sel.preferred) /\ HasKey(discovered_agents, sel.preferred[1]))
        => sel.result = sel.preferred

\* the preferred agent is returned for a task whose keywords match another agent
\* that comes first in the registry
C1_Witness ==
    /\ sel.called
    /\ sel.task = T_cheeseburgers
    /\ sel.preferred = Some(S_travel_agent)
    /\ Len(discovered_agents) >= 2
    /\ discovered_agents[1].key = S_burger_agent
    /\ HasKey(discovered_agents, S_travel_agent)
    /\ sel.result = Some(S_travel_agent)

\* the categories as the specification lists them: trigger keywords and domain tokens
C2_Categories ==
    {[keywords |-> BurgerKeywords, tokens |-> {S_burger}],
     [keywords |-> PizzaKeywords, tokens |-> {S_pizza}],
     [keywords |-> IllustrationKeywords, tokens |-> {S_illustrat}],
     [keywords |-> CurrencyKeywords, tokens |-> {S_currency}],
     [keywords |-> TravelKeywords, tokens |-> {S_travel, S_restaurant, S_attraction}]}

\* every text of a registered agent a domain token could appear in: its name, its
\* description, and the name and description of each skill, nested or top-level
C2_AgentTexts(entry) ==
    LET skills == RoutingSkills(entry.card) \o Get(entry.card.skills, <<>>)
    IN  {Lower(entry.key), Lower(Get(entry.card.description, EmptyStr))}
          \cup {Lower(Get(skills[s].name, EmptyStr)) : s \in 1..Len(skills)}
          \cup {Lower(Get(skills[s].description, EmptyStr)) : s \in 1..Len(skills)}

\* no category has both a keyword in the task and a domain token in some agent
C2_NoRuleMatches ==
    \A c \in C2_Categories : \A i \in 1..Len(discovered_agents) :
        ~ /\ AnyKeyword(c.keywords, Lower(sel.task))
          /\ \E tok \in c.tokens, txt \in C2_AgentTexts(discovered_agents[i]) : In(tok, txt)

\* C2: with no preferred agent given and no category rule matching any registered
\* agent, select_best_agent returns the first agent in registry order; and over all
\* inputs it returns None if and only if the registry is empty.
C2_DefaultIsFirstAgent ==
    sel.called =>
        /\ (~Truthy(sel.preferred) /\ C2_NoRuleMatches /\ Len(discovered_agents) > 0)
               => sel.result = Some(discovered_agents[1].key)
        /\ (sel.result = None) <=> (discovered_agents = <<>>)

\* the default is taken among several agents, for a task that does carry a keyword
\* (of the currency category) that no registered agent answers to
C2_Witness ==
    /\ sel.called
    /\ sel.preferred = None
    /\ AnyKeyword(CurrencyKeywords, Lower(sel.task))
    /\ C2_NoRuleMatches
    /\ Len(discovered_agents) >= 2
    /\ sel.result = Some(discovered_agents[1].key)

----------------------------------------------------------------------------
(* Claims about discovery, under Spec *)

\* the names an endpoint's service registers under when its fetch succeeds
ServedNames(endpoint) ==
    {AgentName(b) : b \in {x \in Bodies(endpoint) : x.isdict /\ DictTruthy(x)}}

\* pass p ends with this step, having had a failed fetch at a and a stored card at b
EndsPass(p, a, b) ==
    /\ disc[p].pc = "fetch"
    /\ disc'[p].pc = "done"
    /\ disc'[p].log[a].status = "fail"
    /\ disc'[p].log[b].status = "ok"

\* C6 as stated: when a pass ends in which endpoint A's fetch failed and endpoint
\* B's succeeded, from any reachable registry, discover_all_agents has not raised,
\* the registry contains B's agent and does not contain A's agent.
C6_FailedEndpointAbsent ==
    [][\A p \in Passes :
          /\ disc'[p].pc # "raised"
          /\ \A a, b \in EndpointIndexes :
                EndsPass(p, a, b) =>
                    /\ HasKey(discovered_agents', disc'[p].log[b].name[1])
                    /\ \A n \in ServedNames(Strip(AGENT_ENDPOINTS[a])) :
                          ~HasKey(discovered_agents', n)]_vars

\* the fetch of pass p returns with this step and has failed
FetchFails(p) ==
    /\ disc[p].pc = "fetch"
    /\ disc'[p].log[disc[p].idx].status = "fail"

\* C6 amended: no pass raises; when a pass ends in which endpoint A's fetch failed
\* and endpoint B's succeeded the registry contains B's agent; and a failed fetch
\* leaves the registry exactly as it was, so that A's agent is absent afterwards
\* only if no earlier or concurrent fetch had stored it (a stale entry persists).
C6_FailedEndpointUnchanged ==
    [][\A p \in Passes :
          /\ disc'[p].pc # "raised"
          /\ \A a, b \in EndpointIndexes :
                EndsPass(p, a, b) => HasKey(discovered_agents', disc'[p].log[b].name[1])
          /\ FetchFails(p) => discovered_agents' = discovered_agents]_vars

\* a pass has ended in which the burger endpoint failed and the travel endpoint
\* succeeded, over a registry that holds the burger agent from an earlier fetch
C6_Witness ==
    \E p \in Passes :
        /\ disc[p].pc = "done"
        /\ disc[p].log[1].status = "fail"
        /\ disc[p].log[3].status = "ok"
        /\ HasKey(discovered_agents, S_burger_agent)
        /\ HasKey(discovered_agents, disc[p].log[3].name[1])

----------------------------------------------------------------------------
(* Claims about the queue processor, under SpecQueue *)

HasResponse(m) == \E r \in 1..Len(responses) : responses[r].of_task = m

\* C3: a task message that has been dead-lettered has no response published for
\* it on agent-responses, also when the publish succeeded and the complete
\* operation then failed.
C3_DeadLetteredHasNoResponse ==
    \A m \in 1..Len(tasks) : tasks[m].state = "dead" => ~HasResponse(m)

\* C4: every task message the processor received is completed or dead-lettered by
\* it in the end: once the processor has stopped, no message it received is left
\* in neither state.
C4_ReceivedIsSettled ==
    proc.pc = "exited" =>
        \A m \in 1..Len(tasks) :
            tasks[m].deliveries > 0 => tasks[m].state \in {"completed", "dead"}

\* C5: every task message the processor completed has a response published on
\* agent-responses, also when select_best_agent found no agent.
C5_CompletedHasResponse ==
    \A m \in 1..Len(tasks) : tasks[m].state = "completed" => HasResponse(m)

----------------------------------------------------------------------------
(* Claims about concurrent discovery passes (specification Spec) *)

\* pass q stores an agent in this step
Writes(q) ==
    /\ disc[q].pc = "fetch"
    /\ disc[q].log[disc[q].idx].status = "none"
    /\ disc'[q].log[disc[q].idx].status = "ok"

\* C13: discovery passes exclude each other: no pass writes to the registry
\* between the first fetch and the last registry write of another pass.  (A pass
\* that writes after another pass wrote during it has had that write fall before
\* its last one.)
C13_PassesAreExclusive ==
    [][\A q \in Passes : Writes(q) => ~disc[q].crossed]_vars

----------------------------------------------------------------------------
(* Claims about get_responses, under SpecReader *)

\* C7: get_responses("all", N) returns at most N records, for every N including
\* 0, and never more records than there are messages in the channel.
C7_AtMostMaxCount ==
    (reader.pc = "done" /\ reader.user_id = "all") =>
        /\ Len(Returned) <= reader.max_messages
        /\ Len(Returned) <= reader.at_start

\* C8: for a user filter other than "all", every record get_responses returns has
\* the user id of the filter.
C8_OnlyRecordsOfTheUser ==
    (reader.pc = "done" /\ reader.user_id # "all") =>
        \A k \in 1..Len(Returned) : Returned[k].user_id = reader.user_id

\* a call for one user has returned a record after having inspected a message of
\* another user too
C8_Witness ==
    /\ reader.pc = "done"
    /\ reader.user_id = "alice"
    /\ Len(Returned) >= 1
    /\ \E m \in reader.inspected : MsgUserId(responses[m]) = "bob"

\* C9: a message that get_responses inspected and that does not match the filter
\* is back on agent-responses when the call has returned, not removed.
C9_UnmatchedStaysQueued ==
    (reader.pc = "done" /\ reader.status = 200) =>
        \A m \in reader.inspected :
            ~Matches(reader.user_id, MsgUserId(responses[m])) => responses[m].state = "queued"

\* C10: when reading the channel fails after matching records were collected, the
\* call still returns the collected records.
C10_ReadFailureKeepsRecords ==
    (reader.pc = "done" /\ reader.cause = "read") => Returned = reader.responses

----------------------------------------------------------------------------
(* Claims about call_agent and the request handlers (specification SpecApi) *)

\* C11: whenever call_agent is called with a name that is not a key of the
\* registry it raises the agent-not-found error, POSTs to no agent and leaves the
\* registry as it was.
C11_UnknownAgentNotFound ==
    [][(/\ api' # api
        /\ api'.handler = "call_agent"
        /\ api'.selected[1] \notin Keys(discovered_agents))
       => /\ api'.pc = "done"
          /\ api'.error = "not_found"
          /\ api'.posts = <<>>
          /\ discovered_agents' = discovered_agents]_vars

\* call_agent("ghost-agent", ...) has raised not-found over a registry with agents
C11_Witness ==
    /\ api.handler = "call_agent"
    /\ api.pc = "done"
    /\ api.selected = Some(S_ghost_agent)
    /\ api.error = "not_found"
    /\ discovered_agents # <<>>

\* C16: when the agent answers the POST of call_agent with a success status,
\* call_agent returns a result whatever the shape of the body: the body's result
\* field when it has one, the serialized body otherwise.
C16_SuccessStatusGivesResult ==
    (api.handler = "call_agent" /\ api.pc = "done" /\ api.answer # None
        /\ api.answer[1].kind = "success")
    => /\ api.error = "none"
       /\ api.result = Some(Get(api.answer[1].body.result, api.answer[1].body.repr))

----------------------------------------------------------------------------
(* Claims about dispatch while discovery runs (specification SpecDispatch) *)

\* C12: every response published to agent-responses and every result execute_task
\* returns names as agent_used the agent call_agent was called with, and that name
\* was a key of the registry when call_agent was entered, however the steps of a
\* concurrent discovery pass fall.
C12_AgentUsedWasRegistered ==
    /\ \A r \in 1..Len(responses) :
            /\ responses[r].at_call.agent_name = Some(responses[r].agent_used)
            /\ responses[r].at_call.known
    /\ (api.handler = "execute_task" /\ api.status = 200) =>
            /\ api.at_call.agent_name = api.agent_used
            /\ api.at_call.known

\* both paths have answered and the discovery pass that ran meanwhile has stored
\* an agent
C12_Witness ==
    /\ Len(responses) >= 1
    /\ api.handler = "execute_task"
    /\ api.status = 200
    /\ disc[2].pc = "done"
    /\ \E i \in EndpointIndexes : disc[2].log[i].status = "ok"

----------------------------------------------------------------------------
(* Claims about execute_task and execute_task_async (specification SpecApi, *)
(* where the registry stays as the request found it)                        *)

C15_AsyncQueuesOneMessage ==
    [][(api'.handler = "execute_task_async" /\ (api' # api \/ tasks' # tasks)) =>
        IF service_bus_client = "none"
        THEN api'.status = 503 /\ tasks' = tasks
        ELSE \/ api'.status = 500 /\ tasks' = tasks
             \/ /\ api'.status = 200
                /\ Len(tasks') = Len(tasks) + 1
                /\ SubSeq(tasks', 1, Len(tasks)) = tasks
                /\ LET message == tasks'[Len(tasks')]
                       request == api'.request[1]
                   IN  /\ message.task = request.task
                       /\ message.user_id = Some(request.user_id)
                       /\ Get(message.preferred_agent, EmptyStr)
                              = Get(request.preferred_agent, EmptyStr)
                       /\ message.state = "queued"]_vars

\* a request naming a preferred agent was queued, and a later request failed at
\* the send: the queue holds the one message
C15_Witness ==
    /\ api.handler = "execute_task_async"
    /\ api.status = 500
    /\ Len(tasks) = 1
    /\ tasks[1].preferred_agent = Some(S_travel_agent)

----------------------------------------------------------------------------
(* Claims about the skills routing uses (specification SpecRouter) *)

\* line 173: the effective skill list of a card, the first non-empty of its
\* top-level skills and its capabilities.skills
EffectiveSkills(agent_card) ==
    IF Get(agent_card.skills, <<>>) # <<>> THEN agent_card.skills[1]
    ELSE RoutingSkills(agent_card)

\* the registry with every agent's effective skills under capabilities.skills
Nested(agents) ==
    [i \in 1..Len(agents) |->
        [agents[i] EXCEPT
            !.card.capabilities = Some([skills |-> Some(EffectiveSkills(agents[i].card))])]]

\* C17: routing uses the effective skill list: select_best_agent chooses over the
\* registry as discovered exactly what it chooses when every agent's effective
\* skills stand under capabilities.skills, so an agent whose skill is only at the
\* top level of its card is selected by the skill-level rules.
C17_TopLevelSkillsRoute ==
    sel.called =>
        sel.result = select_best_agent(sel.task, sel.preferred, Nested(discovered_agents))

----------------------------------------------------------------------------
(* Claims about failures and cancellation in the queue processor *)
(* (specification SpecBatch)                                      *)

\* C18: a failure while processing one message of a batch does not abort the
\* batch: the processor leaves a batch for the sleep between batches only from
\* its last message.
C18_BatchIsFinished ==
    [][(proc.pc \notin {"sleep", "backoff"} /\ proc'.pc \in {"sleep", "backoff"})
       => proc.i = Len(proc.batch)]_vars

\* call_agent or the publishing of the response raises in this step
DispatchRaises ==
    \/ proc.pc = "call" /\ proc' # proc /\ proc'.pc \notin {"send", "closing"}
    \/ proc.pc = "send" /\ proc' # proc /\ proc'.pc # "closing" /\ responses' = responses

\* C19: when dispatch or publishing raises for a task message, the processor
\* goes on to dead-letter that message, leaving it uncompleted; the dead-lettered
\* message carries the reason code and the error text; and the processor does
\* not stop (it ends only when it is cancelled).
C19_FailureIsDeadLettered ==
    [][/\ DispatchRaises =>
            /\ proc'.pc = "dead_letter"
            /\ proc'.batch = proc.batch /\ proc'.i = proc.i
            /\ proc'.error \in {"call_failed", "send_failed"}
            /\ tasks' = tasks
       /\ (proc.pc = "dead_letter" /\ tasks' # tasks) =>
            /\ tasks' = [tasks EXCEPT ![Current].state = "dead",
                                      ![Current].reason = "ProcessingError",
                                      ![Current].error_description = proc.error]
            /\ tasks[Current].state = "locked"
            /\ proc'.pc \notin {"closing", "exited", "off"}
       /\ (proc.pc \in {"call", "send", "dead_letter"} /\ proc'.pc \in {"closing", "exited"}) =>
            lifespan' = "shutdown"]_vars

\* a message whose publish failed is dead-lettered with the error text and the
\* processor is receiving again
C19_Witness ==
    /\ proc.pc = "receive"
    /\ \E m \in 1..Len(tasks) :
        /\ tasks[m].state = "dead"
        /\ tasks[m].reason = "ProcessingError"
        /\ tasks[m].error_description = "send_failed"

\* C20: a processor cancelled while it handles a message (in its dispatch,
\* publish, complete or dead-letter step) leaves its loop only with that message
\* completed or dead-lettered.
C20_CancelledMessageIsSettled ==
    [][(proc.pc \in {"call", "send", "complete", "dead_letter"} /\ proc'.pc = "closing")
       => tasks'[Current].state \in {"completed", "dead"}]_vars

----------------------------------------------------------------------------
(* Claims about the end of the queue processor (specification SpecShutdown) *)

\* C21: once the processor is cancelled it receives no further batch (no task
\* message is delivered after the cancellation) and it has left its loop,
\* whatever it was suspended in; it then ends; and the queue client is closed
\* only once the processor task has ended.
C21_CancelledProcessorEnds ==
    /\ [][lifespan' = "shutdown" =>
            /\ proc'.pc \in {"closing", "exited"}
            /\ \A m \in 1..Len(tasks) : tasks'[m].deliveries = tasks[m].deliveries]_vars
    /\ (lifespan = "shutdown") ~> (proc.pc = "exited")
    /\ [](service_bus_client = "closed" => proc.pc = "exited")

\* the processor was cancelled while it held a batch: it has ended with a task
\* message still locked, and the queue client is closed
C21_Witness ==
    /\ lifespan = "shutdown"
    /\ proc.pc = "exited"
    /\ service_bus_client = "closed"
    /\ \E m \in 1..Len(tasks) : tasks[m].state = "locked"

\* C22: a failure of the queue transport (opening the receiver, or receiving a
\* batch) never ends the processor: the processor ends only when it is
\* cancelled, and from the backoff pause it goes on to receive again.
C22_TransportFailureIsRetried ==
    [][/\ (proc.pc \in {"open_receiver", "receive", "backoff"} /\ proc'.pc = "exited")
            => lifespan' = "shutdown"
       /\ (proc.pc = "backoff" /\ proc' # proc /\ lifespan' = lifespan)
            => proc'.pc = "receive"]_vars

----------------------------------------------------------------------------
(* Claims about the order of the rules of select_best_agent (SpecRouter) *)

\* the agent at position i answers to the task of the last selection by some
\* rule, name/description-level or skill-level
C23_Matches(i) ==
    AgentMatches(Lower(sel.task), discovered_agents[i].key, discovered_agents[i].card)

\* C23: without a usable preferred agent, select_best_agent returns the first
\* agent in registry order that any rule matches, whether the rule is a
\* name/description rule or a skill rule: no agent is returned while one before it
\* matches.
C23_FirstMatchingAgentWins ==
    (sel.called /\ ~PreferredHit(sel.preferred, discovered_agents)) =>
        \A i \in 1..Len(discovered_agents) :
            (C23_Matches(i) /\ \A j \in 1..(i - 1) : ~C23_Matches(j))
                => sel.result = Some(discovered_agents[i].key)

\* the first agent matches through a skill only and is returned, although the
\* second matches through its name or description
C23_Witness ==
    /\ sel.called
    /\ ~PreferredHit(sel.preferred, discovered_agents)
    /\ Len(discovered_agents) >= 2
    /\ C23_Matches(1)
    /\ ~NameDescriptionMatch(Lower(sel.task), discovered_agents[1].key,
                             discovered_agents[1].card)
    /\ NameDescriptionMatch(Lower(sel.task), discovered_agents[2].key,
                            discovered_agents[2].card)
    /\ sel.result = Some(discovered_agents[1].key)

\* the skill-level categories as the claim states them: the trigger keywords and
\* the domain tokens, each looked for in the name and in the description of a skill
C24_SkillCategories ==
    {[keywords |-> IllustrationKeywords, tokens |-> {S_illustrat}],
     [keywords |-> CurrencyKeywords, tokens |-> {S_currency}],
     [keywords |-> TravelKeywords, tokens |-> {S_travel, S_restaurant, S_attraction}],
     [keywords |-> BurgerKeywords, tokens |-> {S_burger}],
     [keywords |-> PizzaKeywords, tokens |-> {S_pizza}]}

\* the agent at position i has a skill that answers to the task of the last
\* selection, the token being in the skill's name or in its description
C24_SkillAnswers(i) ==
    LET skills == RoutingSkills(discovered_agents[i].card)
    IN  \E c \in C24_SkillCategories, s \in 1..Len(skills) :
            /\ AnyKeyword(c.keywords, Lower(sel.task))
            /\ \E tok \in c.tokens :
                \/ In(tok, Lower(Get(skills[s].name, EmptyStr)))
                \/ In(tok, Lower(Get(skills[s].description, EmptyStr)))

\* C24: an agent matches a skill-level category when the task has one of the
\* category's keywords and the category's token is in the name or in the
\* description of one of its skills: with no usable preferred agent and no agent
\* before it matching, such an agent is the one selected.  In particular a task
\* with a travel keyword selects an agent whose skill description holds "travel".
C24_SkillDescriptionRoutes ==
    (sel.called /\ ~PreferredHit(sel.preferred, discovered_agents)) =>
        \A i \in 1..Len(discovered_agents) :
            (C24_SkillAnswers(i) /\ \A j \in 1..(i - 1) : ~C23_Matches(j) /\ ~C24_SkillAnswers(j))
                => sel.result = Some(discovered_agents[i].key)

----------------------------------------------------------------------------
(* Claims about the registry under the dispatch paths and a discovery pass *)
(* (specification SpecDispatch)                                            *)

\* C25: only a discovery pass writes the registry: a step that changes the
\* registry is the return of a fetch of a pass, and it is a step of nothing else;
\* so the steps of execute_task, of call_agent, of select_best_agent within them
\* and of the queue processor leave the registry as it is, whether they succeed
\* or fail.
C25_OnlyDiscoveryWrites ==
    [][discovered_agents' # discovered_agents =>
          /\ \E p \in Passes : disc[p].pc = "fetch" /\ disc'[p] # disc[p]
          /\ api' = api /\ proc' = proc /\ tasks' = tasks /\ responses' = responses
          /\ reader' = reader /\ sel' = sel]_vars

\* the registry has been written by the pass, execute_task has failed in its
\* call and the processor has dead-lettered a task and published for none
C25_Witness ==
    /\ \E i \in EndpointIndexes : disc[2].log[i].status = "ok"
    /\ api.handler = "execute_task" /\ api.status = 500
    /\ Len(tasks) >= 1 /\ tasks[1].state = "dead"
    /\ Len(discovered_agents) >= 1

----------------------------------------------------------------------------
(* Claims about the registry across discovery passes (specification Spec) *)

\* every card an endpoint can be stored with
C26_StoredCards ==
    {StoredCard(s[2], s[1]) : s \in AllStores}

\* C26: the set of agent names in the registry never shrinks; a fetch that fails
\* leaves the registry, and with it the entry of the endpoint's agent, exactly as
\* it was; and an entry changes only in the step of a successful fetch that
\* brought a card of the same name, the new entry being that card as a whole.
C26_RegistryNeverShrinks ==
    [][/\ Keys(discovered_agents) \subseteq Keys(discovered_agents')
       /\ \A p \in Passes : FetchFails(p) => discovered_agents' = discovered_agents
       /\ \A n \in Keys(discovered_agents) :
            Lookup(discovered_agents', n) # Lookup(discovered_agents, n) =>
                \E p \in Passes :
                    /\ Writes(p)
                    /\ disc'[p].log[disc[p].idx].name = Some(n)
                    /\ Lookup(discovered_agents', n) \in C26_StoredCards
                    /\ Lookup(discovered_agents', n).discovery_url
                            = Strip(AGENT_ENDPOINTS[disc[p].idx])]_vars

\* two passes have ended; the first stored the burger agent, in the second the
\* burger endpoint failed and the travel endpoint succeeded: the burger agent is
\* still registered, and the travel agent's entry is the card with top-level skills
C26_Witness ==
    /\ disc[1].pc = "done" /\ disc[2].pc = "done"
    /\ disc[1].log[1].status = "ok"
    /\ disc[2].log[1].status = "fail"
    /\ disc[2].log[3].status = "ok"
    /\ HasKey(discovered_agents, S_burger_agent)
    /\ HasKey(discovered_agents, S_travel_agent)
    /\ Lookup(discovered_agents, S_travel_agent).skills # None

----------------------------------------------------------------------------
(* Claims about the asynchronous path from end to end (SpecPipeline) *)

\* the user a task message was enqueued for: the user_id execute_task_async gave
\* it, "anonymous" for a message without one
C27_UserOfTask(t) == IF tasks[t].user_id = None THEN "anonymous" ELSE tasks[t].user_id[1]

\* C27: the response published for a task carries the user id the task was
\* enqueued for ("anonymous" when the task message has none); a call of
\* get_responses with that user id takes every such response it receives into
\* its list, and the list of a call with another user id (other than "all")
\* never holds it.
C27_UserCorrelation ==
    /\ \A r \in 1..Len(responses) : responses[r].user_id = C27_UserOfTask(responses[r].of_task)
    /\ \A k \in 1..Len(reader.responses) :
         LET m == reader.responses[k].message_id
         IN  /\ reader.responses[k].user_id = C27_UserOfTask(responses[m].of_task)
             /\ reader.user_id \in {"all", C27_UserOfTask(responses[m].of_task)}
    /\ \A m \in reader.inspected :
         reader.user_id = C27_UserOfTask(responses[m].of_task) =>
             \E k \in 1..Len(reader.responses) : reader.responses[k].message_id = m

\* a response to a task of alice is in the list of get_responses("alice"), which
\* received it after an earlier call had received and abandoned it
C27_Witness ==
    /\ reader.pc = "done" /\ reader.status = 200
    /\ reader.user_id = "alice"
    /\ Len(reader.responses) = 1
    /\ tasks[responses[reader.responses[1].message_id].of_task].user_id = Some("alice")
    /\ responses[reader.responses[1].message_id].deliveries = 2

----------------------------------------------------------------------------
(* Claims about execute_task while discovery and the processor run *)
(* (specification SpecDispatch)                                     *)

----------------------------------------------------------------------------
(* Claims about the default agent across discovery passes (specification Spec) *)

\* a task that matches no rule of any card of the model
C29_PlainTask == T_time

\* C29: once the registry is not empty, the default agent (what select_best_agent
\* returns for a task that matches no rule, without preferred agent) never
\* changes, whatever discovery passes succeed, fail or overlap: it is the first
\* name ever inserted.  Every step that changes the registry keeps the names
\* already registered in their order, at the front, and leaves a registry whose
\* default agent is its first name.
C29_DefaultAgentIsStable ==
    [][discovered_agents' # discovered_agents =>
          /\ SubSeq(KeyList(discovered_agents'), 1, Len(discovered_agents))
                = KeyList(discovered_agents)
          /\ select_best_agent(C29_PlainTask, None, discovered_agents')
                = Some(KeyList(discovered_agents')[1])]_vars

\* the travel agent was inserted first (the burger endpoint had failed); a later
\* pass has stored the burger agent and overwritten the travel agent, which is
\* still the default
C29_Witness ==
    /\ Len(discovered_agents) = 2
    /\ discovered_agents[1].key = S_travel_agent
    /\ discovered_agents[2].key = S_burger_agent
    /\ disc[1].pc = "done" /\ disc[2].pc = "done"
    /\ disc[1].log[3].status = "ok" /\ disc[2].log[3].status = "ok"
    /\ select_best_agent(C29_PlainTask, None, discovered_agents) = Some(S_travel_agent)

----------------------------------------------------------------------------
(* Claims that compare the two dispatch paths (specification SpecRouter) *)

\* the message execute_task_async enqueues for the request of the last selection
C30_Message ==
    TaskMessage([task |-> sel.task, user_id |-> "alice", preferred_agent |-> sel.preferred])

\* C30: for the same registry and the same request, the queue processor selects
\* for the message execute_task_async enqueued (line 90, on the task and the
\* preferred_agent property of the message) the agent execute_task selects
\* (line 483), also when the request names no preferred agent (the empty string
\* on the queue) or one that is not registered.
C30_SamePreferredHandling ==
    sel.called =>
        select_best_agent(C30_Message.task, C30_Message.preferred_agent, discovered_agents)
            = sel.result

\* a request that prefers an agent that is not registered is routed on both
\* paths by its keywords, to the burger agent behind the travel agent
C30_Witness ==
    /\ sel.called
    /\ sel.preferred = Some(S_ghost_agent)
    /\ sel.task = T_cheeseburgers
    /\ Len(discovered_agents) = 2
    /\ discovered_agents[1].key = S_travel_agent
    /\ sel.result = Some(S_burger_agent)
    /\ C30_Message.preferred_agent = Some(S_ghost_agent)

----------------------------------------------------------------------------
(* Claims about what get_responses returns and removes (specification SpecReader) *)

\* C31: every response whose record is in the list a call of get_responses
\* returns has been completed (removed from agent-responses) by that call, and
\* the list holds it once: no response is returned and also abandoned back to
\* the channel, where it would be delivered and returned again.
C31_ReturnedIsRemoved ==
    (reader.pc = "done" /\ reader.status = 200) =>
        \A k \in 1..Len(Returned) :
            /\ responses[Returned[k].message_id].state = "completed"
            /\ \A j \in 1..Len(Returned) :
                  Returned[j].message_id = Returned[k].message_id => j = k

----------------------------------------------------------------------------
(* Claims about the URLs of a registry entry (specification SpecDispatch) *)

\* C32: every entry of the registry carries a discovery URL, which is one of the
\* configured endpoints, and a base URL, which is that URL without its
\* well-known suffix; so neither execute_task nor the queue processor ever meets
\* the missing-base-URL error of call_agent, and the POST of call_agent goes to
\* the stored base URL of the agent followed by /task.
C32_EntriesCarryUrls ==
    /\ \A i \in 1..Len(discovered_agents) :
         LET card == discovered_agents[i].card
         IN  /\ \E e \in EndpointIndexes : card.discovery_url = Strip(AGENT_ENDPOINTS[e])
             /\ card.discovery_url # <<>>
             /\ card.base_url # <<>>
             /\ card.base_url \o <<WellKnown>> = card.discovery_url
    /\ api.error # "no_base_url"
    /\ proc.error # "no_base_url"
    /\ (api.handler = "execute_task" /\ api.posts # <<>>) =>
         /\ HasKey(discovered_agents, api.selected[1])
         /\ api.posts = <<Lookup(discovered_agents, api.selected[1]).base_url \o <<"/task">>>>

\* execute_task has been answered by the travel agent, POSTed at its base URL,
\* after the discovery pass had stored the agent anew
C32_Witness ==
    /\ api.handler = "execute_task"
    /\ api.status = 200
    /\ api.selected = Some(S_travel_agent)
    /\ api.posts = <<<<"http://travel-agent-service", "/task">>>>
    /\ disc[2].log[3].status = "ok"
    /\ disc[2].log[3].name = Some(S_travel_agent)
====
